---- MODULE Spec2Model ----
(***************************************************************************)
(* Sistema Lista BraSoft: parsing of the "product_info" text of an order   *)
(* export, classification of each item into a category and aggregation     *)
(* per order (src/sistema_lista_brasoft.py).                               *)
(*                                                                         *)
(* A Python str is a sequence of one-character strings.  A cell of a       *)
(* table is a tagged value: PyStr(s), PyInt(n) or PyNaN (an empty cell of  *)
(* the sheet, which pandas reads as the float nan).                        *)
(***************************************************************************)
EXTENDS Integers, Sequences, FiniteSets, TLC

VARIABLES cfg, pc, df, df_det, diag_rows, resumo, product_info, blocks,
          blk, sku_raw, variation, qty_blk, outputs, diag

vars == <<cfg, pc, df, df_det, diag_rows, resumo, product_info, blocks,
          blk, sku_raw, variation, qty_blk, outputs, diag>>

(***************************************************************************)
(* Bounds                                                                  *)
(***************************************************************************)
MaxWords == 4
MaxQty == 3

(***************************************************************************)
(* Characters                                                              *)
(***************************************************************************)
Lower(c) ==
    CASE c = "A" -> "a" [] c = "B" -> "b" [] c = "C" -> "c" [] c = "D" -> "d"
      [] c = "E" -> "e" [] c = "F" -> "f" [] c = "G" -> "g" [] c = "H" -> "h"
      [] c = "I" -> "i" [] c = "J" -> "j" [] c = "K" -> "k" [] c = "L" -> "l"
      [] c = "M" -> "m" [] c = "N" -> "n" [] c = "O" -> "o" [] c = "P" -> "p"
      [] c = "Q" -> "q" [] c = "R" -> "r" [] c = "S" -> "s" [] c = "T" -> "t"
      [] c = "U" -> "u" [] c = "V" -> "v" [] c = "W" -> "w" [] c = "X" -> "x"
      [] c = "Y" -> "y" [] c = "Z" -> "z" [] OTHER -> c

IsDigit(c) == c \in {"0", "1", "2", "3", "4", "5", "6", "7", "8", "9"}

IsLowerLetter(c) ==
    c \in {"a", "b", "c", "d", "e", "f", "g", "h", "i", "j", "k", "l", "m",
           "n", "o", "p", "q", "r", "s", "t", "u", "v", "w", "x", "y", "z"}

\* \s of the re module
IsSpace(c) == c \in {" ", "\n", "\t"}

\* [a-z0-9]
IsAlnumLower(c) == IsLowerLetter(c) \/ IsDigit(c)

\* \w of the re module on str patterns: letters (accented ones too), digits, _
IsWord(c) == IsLowerLetter(Lower(c)) \/ IsDigit(c) \/ c = "_" \/ c = "ñ"

NotSpace(c) == ~IsSpace(c)

DigitVal(c) ==
    CASE c = "0" -> 0 [] c = "1" -> 1 [] c = "2" -> 2 [] c = "3" -> 3
      [] c = "4" -> 4 [] c = "5" -> 5 [] c = "6" -> 6 [] c = "7" -> 7
      [] c = "8" -> 8 [] c = "9" -> 9

DigitChar(n) == <<"0", "1", "2", "3", "4", "5", "6", "7", "8", "9">>[n + 1]

\* int(s) of a non-empty run of decimal digits
RECURSIVE ParseInt(_)
ParseInt(s) ==
    IF s = <<>> THEN 0
    ELSE 10 * ParseInt(SubSeq(s, 1, Len(s) - 1)) + DigitVal(s[Len(s)])

\* str(n) of a non-negative int
RECURSIVE IntToStr(_)
IntToStr(n) ==
    IF n < 10 THEN <<DigitChar(n)>>
    ELSE IntToStr(n \div 10) \o <<DigitChar(n % 10)>>

\* needle in hay
Contains(hay, needle) ==
    \E i \in 0..(Len(hay) - Len(needle)) :
        SubSeq(hay, i + 1, i + Len(needle)) = needle

LowerStr(s) == [i \in 1..Len(s) |-> Lower(s[i])]

\* str.strip()
RECURSIVE Strip(_)
Strip(s) ==
    IF s = <<>> THEN s
    ELSE IF IsSpace(s[1]) THEN Strip(Tail(s))
    ELSE IF IsSpace(s[Len(s)]) THEN Strip(SubSeq(s, 1, Len(s) - 1))
    ELSE s

(***************************************************************************)
(* TextNormalizer                                                          *)
(***************************************************************************)
\* NFKD decomposes an accented letter into the letter and a combining mark,
\* and the combining mark is dropped; every other character of the texts
\* used here decomposes to itself.
strip_accents(s) == [i \in 1..Len(s) |-> IF s[i] = "ñ" THEN "n" ELSE s[i]]

normalize_token(s) ==
    LET s1 == LowerStr(strip_accents(s))
        s2 == SelectSeq(s1, NotSpace)
    IN  SelectSeq(s2, IsAlnumLower)

(***************************************************************************)
(* Configuration (sku_map.json as load_map_file returns it).  "categories" *)
(* is a dict: its iteration order is the order of the sequence.            *)
(***************************************************************************)
default_priorities == <<"PR", "R70", "ENC", "ENC_CAPA", "XUXAO", "BB", "RAMPA">>

CfgDefault ==
    [priorities |-> default_priorities,
     categories |-> << [name |-> "PR", aliases |-> {<<"p", "r", "1">>}],
                       [name |-> "R70", aliases |-> {<<"r", "7", "0">>}],
                       [name |-> "ENC", aliases |-> {<<"e", "1">>}],
                       [name |-> "ENC_CAPA", aliases |-> {<<"e", "c">>}] >>,
     special_rules |-> [enc_capa_category |-> "ENC_CAPA",
                        enc_base_category |-> "ENC"]]

\* the same map with the counted-marker category under another name
CfgRenamed ==
    [priorities |-> default_priorities,
     categories |-> << [name |-> "PR", aliases |-> {<<"p", "r", "1">>}],
                       [name |-> "R70", aliases |-> {<<"r", "7", "0">>}],
                       [name |-> "ENC", aliases |-> {<<"e", "1">>}],
                       [name |-> "CAPA", aliases |-> {<<"e", "c">>}] >>,
     special_rules |-> [enc_capa_category |-> "CAPA",
                        enc_base_category |-> "ENC"]]

Configs == {CfgDefault, CfgRenamed}

enc_capa_category(c) == c.special_rules.enc_capa_category
enc_base_category(c) == c.special_rules.enc_base_category

(***************************************************************************)
(* ItemQuantifier and CategoryResolver                                     *)
(***************************************************************************)
\* \b(\d+)\b matched on v[i..j]: a maximal run of digits with no word
\* character on either side
IntTokenAt(v, i, j) ==
    /\ i <= j
    /\ \A k \in i..j : IsDigit(v[k])
    /\ (i = 1 \/ ~IsWord(v[i - 1]))
    /\ (j = Len(v) \/ ~IsWord(v[j + 1]))

IntTokens(v) ==
    {ij \in (1..Len(v)) \X (1..Len(v)) : IntTokenAt(v, ij[1], ij[2])}

\* int(m.group(1)) of the first token, 1 when re.search finds none
FirstIntToken(v, toks) ==
    IF toks = {} THEN 1
    ELSE LET tk == CHOOSE a \in toks : \A b \in toks : a[1] <= b[1]
         IN  ParseInt(SubSeq(v, tk[1], tk[2]))

quant_kit_from_variation(v) ==
    IF Strip(v) = <<>> THEN 1 ELSE FirstIntToken(v, IntTokens(v))

\* lines 121-128 once v_norm is computed
category_from_normalized(initial_category, v_norm, enc_capa_cat, enc_base_cat) ==
    LET has_encosto == Contains(v_norm, <<"e", "n", "c", "o", "s", "t", "o">>)
        has_capa_extra ==
            Contains(v_norm, <<"c", "a", "p", "a", "e", "x", "t", "r", "a">>)
        has_com_capa ==
            \/ Contains(v_norm, <<"c", "o", "m", "c", "a", "p", "a">>)
            \/ Contains(v_norm, <<"+", "c", "a", "p", "a">>)
    IN  IF has_encosto /\ has_capa_extra THEN enc_capa_cat
        ELSE IF has_encosto /\ has_com_capa /\ initial_category # enc_capa_cat
             THEN enc_base_cat
        ELSE initial_category

\* the rules in the other order: the base case decided before the extra case
compute_category_base_first(initial_category, v, enc_capa_cat, enc_base_cat) ==
    LET v_norm == normalize_token(v)
        has_encosto == Contains(v_norm, <<"e", "n", "c", "o", "s", "t", "o">>)
        has_capa_extra ==
            Contains(v_norm, <<"c", "a", "p", "a", "e", "x", "t", "r", "a">>)
        has_com_capa ==
            \/ Contains(v_norm, <<"c", "o", "m", "c", "a", "p", "a">>)
            \/ Contains(v_norm, <<"+", "c", "a", "p", "a">>)
    IN  IF has_encosto /\ has_com_capa /\ initial_category # enc_capa_cat
        THEN enc_base_cat
        ELSE IF has_encosto /\ has_capa_extra THEN enc_capa_cat
        ELSE initial_category

compute_category_from_variation(initial_category, v, enc_capa_cat, enc_base_cat) ==
    category_from_normalized(initial_category, normalize_token(v),
                             enc_capa_cat, enc_base_cat)

\* a lookup that falls back on the first category instead of ""
alias_category_defaulting(sku_norm, c) ==
    LET cats == c.categories
        hits == {i \in 1..Len(cats) : sku_norm \in cats[i].aliases}
    IN  IF hits = {} THEN cats[1].name
        ELSE cats[CHOOSE i \in hits : \A k \in hits : i <= k].name

\* the loop over cfg["categories"].items(): the first category whose aliases
\* hold the normalized SKU, "" when there is none
alias_category(sku_norm, c) ==
    LET cats == c.categories
        hits == {i \in 1..Len(cats) : sku_norm \in cats[i].aliases}
    IN  IF hits = {} THEN ""
        ELSE cats[CHOOSE i \in hits : \A k \in hits : i <= k].name

\* the counted-marker output valued in units instead of kits
item_outputs_in_units(category, v, kits_purchased, unidades, enc_capa_cat) ==
    IF category # ""
    THEN category :> [type |-> IF category = enc_capa_cat
                                  /\ Contains(normalize_token(v),
                                       <<"c", "a", "p", "a", "e", "x", "t", "r", "a">>)
                               THEN "enc_capa" ELSE "numeric",
                      value |-> unidades]
    ELSE [c \in {} |-> 0]

\* the outputs dict of one item: no key, or the key of its category
item_outputs(category, v, kits_purchased, unidades, enc_capa_cat) ==
    IF category # ""
    THEN IF category = enc_capa_cat
            /\ Contains(normalize_token(v),
                        <<"c", "a", "p", "a", "e", "x", "t", "r", "a">>)
         THEN category :> [type |-> "enc_capa", value |-> kits_purchased]
         ELSE category :> [type |-> "numeric", value |-> unidades]
    ELSE [c \in {} |-> 0]

\* lines 143-154: the outputs and the diagnostic record
item_record(sku, v, kit_qty, kits_purchased, sku_norm, category, c) ==
    [outputs |-> item_outputs(category, v, kits_purchased,
                              kit_qty * kits_purchased, enc_capa_category(c)),
     diag |-> [sku_raw |-> sku, sku_norm |-> sku_norm, category |-> category,
               kit_qty |-> kit_qty, kits_purchased |-> kits_purchased,
               unidades |-> kit_qty * kits_purchased, variation_seen |-> v]]

\* lines 135-142: the category of the item
item_result(sku, v, kit_qty, kits_purchased, sku_norm, c) ==
    item_record(sku, v, kit_qty, kits_purchased, sku_norm,
                compute_category_from_variation(alias_category(sku_norm, c), v,
                    enc_capa_category(c), enc_base_category(c)),
                c)

compute_outputs_single_item(sku, v, qty_from_block, c) ==
    item_result(sku, v, quant_kit_from_variation(v),
                IF qty_from_block # 0 THEN qty_from_block ELSE 1,
                normalize_token(sku), c)

(***************************************************************************)
(* Values a variable holds while its stage has not run                     *)
(***************************************************************************)
NoOutputs == [c \in {} |-> 0]
NoDiag == [sku_raw |-> <<>>, sku_norm |-> <<>>, category |-> "",
           kit_qty |-> 0, kits_purchased |-> 0, unidades |-> 0,
           variation_seen |-> <<>>]
NoTable == [columns |-> {}, rows |-> <<>>]
NoCell == [t |-> "nan", s |-> <<>>, n |-> 0]

(***************************************************************************)
(* SpecItem: compute_outputs_single_item applied to one item               *)
(***************************************************************************)
RECURSIVE Flatten(_)
Flatten(ws) == IF ws = <<>> THEN <<>> ELSE Head(ws) \o Flatten(Tail(ws))

WEncosto == <<"E", "n", "c", "o", "s", "t", "o">>
WPlusCapa == <<" ", "+", " ", "C", "a", "p", "a">>
WComCapa == <<" ", "c", "o", "m", " ", "C", "a", "p", "a">>
WExtra == <<" ", "E", "x", "t", "r", "a">>
WTwo == <<"2", " ">>

VarWords == {WEncosto, WPlusCapa, WComCapa, WExtra, WTwo}

Variations ==
    UNION { {Flatten(f) : f \in [1..n -> VarWords]} : n \in 0..MaxWords }

Skus == { <<"R", "-", "7", "0">>, <<"E", "1">>, <<"E", "C">>, <<"Z", "Z">> }

InitItem ==
    /\ cfg \in Configs
    /\ pc = "item"
    /\ sku_raw \in Skus
    /\ variation \in Variations
    /\ qty_blk \in 0..MaxQty
    /\ outputs = NoOutputs
    /\ diag = NoDiag
    /\ df = NoTable /\ df_det = <<>> /\ diag_rows = <<>> /\ resumo = <<>>
    /\ product_info = NoCell /\ blocks = <<>> /\ blk = <<>>

ComputeItem ==
    /\ pc = "item"
    /\ \E r \in {compute_outputs_single_item(sku_raw, variation, qty_blk, cfg)} :
           /\ outputs' = r.outputs
           /\ diag' = r.diag
    /\ pc' = "item_done"
    /\ UNCHANGED <<cfg, df, df_det, diag_rows, resumo, product_info, blocks,
                   blk, sku_raw, variation, qty_blk>>

NextItem == ComputeItem

SpecItem == InitItem /\ [][NextItem]_vars

(***************************************************************************)
(* What the claims say about one item                                      *)
(***************************************************************************)
\* the variation text lower-cased and without whitespace
NoSpaceLower(v) == SelectSeq(LowerStr(strip_accents(v)), NotSpace)

SaysEncosto(v) ==
    Contains(normalize_token(v), <<"e", "n", "c", "o", "s", "t", "o">>)
SaysCapaExtra(v) ==
    Contains(normalize_token(v), <<"c", "a", "p", "a", "e", "x", "t", "r", "a">>)
SaysComCapa(v) ==
    Contains(normalize_token(v), <<"c", "o", "m", "c", "a", "p", "a">>)
SaysPlusCapa(v) == Contains(NoSpaceLower(v), <<"+", "c", "a", "p", "a">>)

\* the category whose aliases hold the normalized SKU, "" when none does
Step1Category(sku, c) ==
    LET n == normalize_token(sku)
    IN  IF \E i \in 1..Len(c.categories) : n \in c.categories[i].aliases
        THEN c.categories[CHOOSE i \in 1..Len(c.categories) :
                              /\ n \in c.categories[i].aliases
                              /\ \A k \in 1..(i - 1) :
                                     n \notin c.categories[k].aliases].name
        ELSE ""

Unmapped(sku, c) ==
    \A i \in 1..Len(c.categories) :
        normalize_token(sku) \notin c.categories[i].aliases

\* C1: a variation with "encosto" and "comcapa" or "+capa" (and no
\* "capaextra"), on an item whose step-1 category is not enc_capa_category,
\* resolves to enc_base_category.
C1_BaseCaseOverride ==
    ( /\ pc = "item_done"
      /\ SaysEncosto(variation)
      /\ ~SaysCapaExtra(variation)
      /\ SaysComCapa(variation) \/ SaysPlusCapa(variation)
      /\ Step1Category(sku_raw, cfg) # enc_capa_category(cfg) )
    => diag.category = enc_base_category(cfg)

\* C2: a variation with "encosto" and "capaextra" resolves to
\* enc_capa_category whatever the step-1 category is, also when the base
\* case applies too.
C2_CapaExtraOverride ==
    (pc = "item_done" /\ SaysEncosto(variation) /\ SaysCapaExtra(variation))
    => /\ diag.category = enc_capa_category(cfg)
       /\ diag.category # enc_base_category(cfg)

C2_Witness ==
    /\ pc = "item_done"
    /\ SaysEncosto(variation) /\ SaysCapaExtra(variation) /\ SaysComCapa(variation)
    /\ Unmapped(sku_raw, cfg)
    /\ diag.category = enc_capa_category(cfg)

\* C3 as stated: an item whose SKU is in no alias set has no output and the
\* diagnostic category "", whatever its variation.
C3_UnmappedAnyVariation ==
    (pc = "item_done" /\ Unmapped(sku_raw, cfg))
    => (DOMAIN outputs = {} /\ diag.category = "")

\* C3 amended: an item whose SKU is in no alias set, and whose variation
\* does not say "encosto" with "capaextra" or "comcapa", has no output and
\* the diagnostic category "".
C3_UnmappedNoOverride ==
    ( /\ pc = "item_done"
      /\ Unmapped(sku_raw, cfg)
      /\ ~(SaysEncosto(variation)
           /\ (SaysCapaExtra(variation) \/ SaysComCapa(variation))) )
    => (DOMAIN outputs = {} /\ diag.category = "")

C3_Witness ==
    /\ pc = "item_done"
    /\ Unmapped(sku_raw, cfg)
    /\ SaysEncosto(variation) /\ SaysPlusCapa(variation)
    /\ ~SaysCapaExtra(variation) /\ ~SaysComCapa(variation)
    /\ DOMAIN outputs = {}
    /\ diag.category = ""

\* C4: an item has at most one output; it is a counted marker valued
\* kits_purchased when the category is enc_capa_category and the variation
\* says "capaextra", and numeric valued kit_qty * kits_purchased for every
\* other non-empty category.
C4_OutputSelection ==
    pc = "item_done" =>
        /\ Cardinality(DOMAIN outputs) <= 1
        /\ DOMAIN outputs = IF diag.category = "" THEN {} ELSE {diag.category}
        /\ \A c \in DOMAIN outputs :
              IF c = enc_capa_category(cfg) /\ SaysCapaExtra(variation)
              THEN outputs[c] = [type |-> "enc_capa",
                                 value |-> IF qty_blk # 0 THEN qty_blk ELSE 1]
              ELSE outputs[c] = [type |-> "numeric",
                                 value |-> diag.kit_qty * diag.kits_purchased]

C4_Witness ==
    /\ pc = "item_done"
    /\ diag.category = enc_capa_category(cfg)
    /\ SaysCapaExtra(variation)
    /\ diag.kit_qty = 2
    /\ qty_blk = 3
    /\ outputs[diag.category] = [type |-> "enc_capa", value |-> 3]

(***************************************************************************)
(* Regular expressions of the module, as the re module matches them        *)
(***************************************************************************)
MinOf(S) == CHOOSE x \in S : \A y \in S : x <= y
MaxOf(S) == CHOOSE x \in S : \A y \in S : x >= y

\* the literal at position p, case-insensitively (re.IGNORECASE)
MatchLit(t, p, lit) ==
    /\ p + Len(lit) - 1 <= Len(t)
    /\ \A k \in 1..Len(lit) : Lower(t[p + k - 1]) = Lower(lit[k])

\* [A-Za-z0-9_\-\. ]
IsSkuChar(c) ==
    IsLowerLetter(Lower(c)) \/ IsDigit(c) \/ c \in {"_", "-", ".", " "}

\* [^;\\n] in a raw string: anything but a semicolon, a backslash and the
\* letter n (N too, under re.IGNORECASE)
IsVarChar(c) == Lower(c) \notin {";", "\\", "n"}

\* [^\[]
NotBracket(c) == c # "["

\* the character classes of the patterns, by name
InClass(cls, c) ==
    CASE cls = "space" -> IsSpace(c)
      [] cls = "nonspace" -> NotSpace(c)
      [] cls = "digit" -> IsDigit(c)
      [] cls = "sku" -> IsSkuChar(c)
      [] cls = "var" -> IsVarChar(c)
      [] cls = "nonbracket" -> NotBracket(c)

\* the position after the longest run of cls characters that starts at p
RunEnd(t, p, cls) ==
    CHOOSE q \in p..(Len(t) + 1) :
        /\ q = Len(t) + 1 \/ ~InClass(cls, t[q])
        /\ \A k \in p..(q - 1) : InClass(cls, t[k])

LblSku == <<"S", "K", "U", " ", "R", "e", "f", "e", "r", "e", "n", "c", "e",
            " ", "N", "o", ".">>
LblVar == <<"V", "a", "r", "i", "a", "t", "i", "o", "n", " ", "N", "a", "m", "e">>

\* the group that starts at s: <<first, last>>
GroupFrom(t, s, cls) == <<s, RunEnd(t, s, cls) - 1>>

\* the group of "label \s* : \s* (cls+)"; b is the position after the colon
\* and c the position after the whitespace that follows it.  The second \s*
\* is greedy and gives characters back when the group cannot start at c.
FieldGroup(t, b, c, cls) ==
    IF c <= Len(t) /\ InClass(cls, t[c]) THEN GroupFrom(t, c, cls)
    ELSE IF \E k \in b..(c - 1) : InClass(cls, t[k])
    THEN GroupFrom(t, MaxOf({k \in b..(c - 1) : InClass(cls, t[k])}), cls)
    ELSE <<0, 0>>

\* a is the position after the label and the whitespace that follows it
FieldAfterLabel(t, a, cls) ==
    IF a > Len(t) \/ t[a] # ":" THEN <<0, 0>>
    ELSE FieldGroup(t, a + 1, RunEnd(t, a + 1, "space"), cls)

\* the pattern matched at p: <<first, last>> of the group, <<0, 0>> when it
\* does not match there
FieldAt(t, p, label, cls) ==
    IF ~MatchLit(t, p, label) THEN <<0, 0>>
    ELSE FieldAfterLabel(t, RunEnd(t, p + Len(label), "space"), cls)

\* the group of the leftmost match among the matches at every position
FirstField(f) ==
    IF \A p \in DOMAIN f : f[p] = <<0, 0>> THEN <<0, 0>>
    ELSE f[MinOf({p \in DOMAIN f : f[p] # <<0, 0>>})]

\* m.group(1).strip(), "" without a match
StripGroup(t, g) ==
    IF g = <<0, 0>> THEN <<>> ELSE Strip(SubSeq(t, g[1], g[2]))

\* pattern.search(t)
FieldSearch(t, label, cls) ==
    StripGroup(t, FirstField([p \in 1..Len(t) |-> FieldAt(t, p, label, cls)]))

SKU_IN_PRODUCT_INFO(t) == FieldSearch(t, LblSku, "sku")

VAR_IN_PRODUCT_INFO(t) == FieldSearch(t, LblVar, "var")

extract_sku_and_var_from_text(t) ==
    IF Strip(t) = <<>> THEN [sku_raw |-> <<>>, variation |-> <<>>]
    ELSE [sku_raw |-> SKU_IN_PRODUCT_INFO(t), variation |-> VAR_IN_PRODUCT_INFO(t)]

\* the five quantity patterns, in the order they are tried
QTD_PATTERNS ==
    << [kind |-> "key", key |-> <<"Q", "u", "a", "n", "t", "i", "t", "y", ":">>,
        boundary |-> FALSE, sep |-> FALSE, quote |-> FALSE],
       [kind |-> "key", key |-> <<"\"", "Q", "u", "a", "n", "t", "i", "t", "y", "\"">>,
        boundary |-> FALSE, sep |-> TRUE, quote |-> TRUE],
       [kind |-> "key", key |-> <<"q", "t", "y">>,
        boundary |-> TRUE, sep |-> TRUE, quote |-> FALSE],
       [kind |-> "key", key |-> <<"q", "u", "a", "n", "t", "i", "t", "y">>,
        boundary |-> TRUE, sep |-> TRUE, quote |-> FALSE],
       [kind |-> "index", key |-> <<>>,
        boundary |-> FALSE, sep |-> FALSE, quote |-> FALSE] >>

\* (\d+) at q: its position, 0 when no digit is there
DigitStart(t, q) == IF q <= Len(t) /\ IsDigit(t[q]) THEN q ELSE 0

\* "?(\d+) at b
DigitsAt(t, b, pat) ==
    DigitStart(t, IF pat.quote /\ b <= Len(t) /\ t[b] = "\"" THEN b + 1 ELSE b)

\* \s*[:=]\s* and the digits; a is the position after the key and the
\* whitespace that follows it
KeyNumAfter(t, a, pat) ==
    IF ~pat.sep THEN DigitsAt(t, a, pat)
    ELSE IF a <= Len(t) /\ t[a] \in {":", "="}
    THEN DigitsAt(t, RunEnd(t, a + 1, "space"), pat)
    ELSE 0

\* \[(\d+)\]\s at a, d being the position after the digits
IndexDigits(t, a, d) ==
    IF \/ d = a + 1
       \/ d > Len(t) \/ t[d] # "]"
       \/ d + 1 > Len(t) \/ ~IsSpace(t[d + 1])
    THEN 0 ELSE a + 1

\* ^\s*\[(\d+)\]\s, a being the position after the leading whitespace
IndexNumAt(t, p, a) ==
    IF p # 1 \/ a > Len(t) \/ t[a] # "[" THEN 0
    ELSE IndexDigits(t, a, RunEnd(t, a + 1, "digit"))

\* where the digits of the group start when pat matches at p, else 0
NumAt(t, p, pat) ==
    IF pat.kind = "index" THEN IndexNumAt(t, p, RunEnd(t, 1, "space"))
    ELSE IF ~MatchLit(t, p, pat.key) \/ (pat.boundary /\ p > 1 /\ IsWord(t[p - 1]))
    THEN 0
    ELSE KeyNumAfter(t, RunEnd(t, p + Len(pat.key), "space"), pat)

\* the first entry of f that is not 0, 0 when there is none
FirstNonZero(f) ==
    IF \A p \in DOMAIN f : f[p] = 0 THEN 0
    ELSE f[MinOf({p \in DOMAIN f : f[p] # 0})]

\* pat.search(t): where the digits of the leftmost match start, 0 for no match
PatternSearch(t, pat) == FirstNonZero([p \in 1..Len(t) |-> NumAt(t, p, pat)])

\* int(m.group(1)) of the match whose digits start at d
QuantityAt(t, d, fallback) ==
    IF d = 0 THEN fallback
    ELSE ParseInt(SubSeq(t, d, RunEnd(t, d, "digit") - 1))

\* the first pattern of the list that matches decides
extract_quantity_from_text(t, fallback) ==
    QuantityAt(t,
               FirstNonZero([i \in 1..Len(QTD_PATTERNS) |->
                                PatternSearch(t, QTD_PATTERNS[i])]),
               fallback)

\* [^\[]+ at d + 1, d being the position after the digits of the marker
BlockEndAfterDigits(t, p, d) ==
    IF \/ d = p + 1
       \/ d > Len(t) \/ t[d] # "]"
       \/ d + 1 > Len(t) \/ t[d + 1] = "["
    THEN 0
    ELSE RunEnd(t, d + 1, "nonbracket") - 1

\* where the match of \[\d+\][^\[]+ that starts at p ends, 0 for no match
BlockEndAt(t, p) ==
    IF t[p] # "[" THEN 0
    ELSE BlockEndAfterDigits(t, p, RunEnd(t, p + 1, "digit"))

\* the matches found scanning from position from, one after the other
RECURSIVE CollectBlocks(_, _, _)
CollectBlocks(t, ends, from) ==
    IF \A p \in from..Len(t) : ends[p] = 0 THEN <<>>
    ELSE LET p == MinOf({k \in from..Len(t) : ends[k] # 0})
         IN  <<SubSeq(t, p, ends[p])>> \o CollectBlocks(t, ends, ends[p] + 1)

\* BLOCK_RE.findall(t)
BLOCK_RE_findall(t) ==
    CollectBlocks(t, [p \in 1..Len(t) |-> BlockEndAt(t, p)], 1)

PyStr(s) == [t |-> "str", s |-> s, n |-> 0]
PyInt(n) == [t |-> "int", s |-> <<>>, n |-> n]
PyNaN == [t |-> "nan", s |-> <<>>, n |-> 0]

\* "if not blocks: blocks = [product_info]"
BlocksOrWhole(s, found) == IF found = <<>> THEN <<s>> ELSE found

\* the blocks of one product_info cell
split_blocks(cell) ==
    IF cell.t = "str" THEN BlocksOrWhole(cell.s, BLOCK_RE_findall(cell.s))
    ELSE <<>>

(***************************************************************************)
(* SpecExtract: the field extractors applied to one block.                 *)
(* SpecSplit: the block split applied to one product_info cell.            *)
(***************************************************************************)
MaxFrags == 3

FMarker1 == <<"[", "1", "]", " ">>
FMarker2 == <<"[", "2", "]", " ">>
FStray == <<"[", "x", "]", " ">>
FSku == LblSku \o <<" ", ":", " ", "R", "-", "7", "0", ";", " ">>
FVarExtra == LblVar \o <<" ", ":", " ">> \o WEncosto \o WPlusCapa \o WExtra \o <<";", " ">>
FVarKit == LblVar \o <<" ", ":", " ", "2", " ", "u", "\n">>
FQuantity == <<"Q", "u", "a", "n", "t", "i", "t", "y", ":", " ", "2", " ">>
FQty == <<"q", "t", "y", "=", "3", " ">>

Fragments == {FMarker1, FMarker2, FStray, FSku, FVarExtra, FVarKit, FQuantity, FQty}

Texts == UNION { {Flatten(f) : f \in [1..n -> Fragments]} : n \in 0..MaxFrags }

InitExtract ==
    /\ cfg \in {CfgDefault}
    /\ pc = "block"
    /\ blk \in Texts
    /\ sku_raw = <<>> /\ variation = <<>> /\ qty_blk = 0
    /\ outputs = NoOutputs /\ diag = NoDiag
    /\ df = NoTable /\ df_det = <<>> /\ diag_rows = <<>> /\ resumo = <<>>
    /\ product_info = NoCell /\ blocks = <<>>

ExtractFields ==
    /\ pc = "block"
    /\ \E r \in {extract_sku_and_var_from_text(blk)} :
           /\ sku_raw' = r.sku_raw
           /\ variation' = r.variation
    /\ qty_blk' = extract_quantity_from_text(blk, 1)
    /\ pc' = "block_done"
    /\ UNCHANGED <<cfg, df, df_det, diag_rows, resumo, product_info, blocks,
                   blk, outputs, diag>>

NextExtract == ExtractFields

SpecExtract == InitExtract /\ [][NextExtract]_vars

InitSplit ==
    /\ cfg \in {CfgDefault}
    /\ pc = "cell"
    /\ product_info \in {PyStr(t) : t \in Texts} \cup {PyNaN}
    /\ blocks = <<>>
    /\ blk = <<>> /\ sku_raw = <<>> /\ variation = <<>> /\ qty_blk = 0
    /\ outputs = NoOutputs /\ diag = NoDiag
    /\ df = NoTable /\ df_det = <<>> /\ diag_rows = <<>> /\ resumo = <<>>

SplitBlocks ==
    /\ pc = "cell"
    /\ blocks' = split_blocks(product_info)
    /\ pc' = "cell_done"
    /\ UNCHANGED <<cfg, df, df_det, diag_rows, resumo, product_info,
                   blk, sku_raw, variation, qty_blk, outputs, diag>>

NextSplit == SplitBlocks

SpecSplit == InitSplit /\ [][NextSplit]_vars

(***************************************************************************)
(* SpecBlock: one block through the extractors and then through            *)
(* compute_outputs_single_item, as the loop body of run_process does.      *)
(***************************************************************************)
FVarZero == LblVar \o <<" ", ":", " ", "0", " ", "u", ";", " ">>
FQtyZero == <<"q", "t", "y", "=", "0", " ">>

BlockFragments == {FSku, FVarExtra, FVarKit, FVarZero, FQuantity, FQtyZero}

BlockTexts ==
    UNION { {Flatten(f) : f \in [1..n -> BlockFragments]} : n \in 0..MaxFrags }

InitBlock ==
    /\ cfg \in {CfgDefault}
    /\ pc = "block"
    /\ blk \in BlockTexts
    /\ sku_raw = <<>> /\ variation = <<>> /\ qty_blk = 0
    /\ outputs = NoOutputs /\ diag = NoDiag
    /\ df = NoTable /\ df_det = <<>> /\ diag_rows = <<>> /\ resumo = <<>>
    /\ product_info = NoCell /\ blocks = <<>>

QuantifyBlock ==
    /\ pc = "block_done"
    /\ \E r \in {compute_outputs_single_item(sku_raw, variation, qty_blk, cfg)} :
           /\ outputs' = r.outputs
           /\ diag' = r.diag
    /\ pc' = "block_item_done"
    /\ UNCHANGED <<cfg, df, df_det, diag_rows, resumo, product_info, blocks,
                   blk, sku_raw, variation, qty_blk>>

NextBlock == ExtractFields \/ QuantifyBlock

SpecBlock == InitBlock /\ [][NextBlock]_vars

\* C11: the diagnostic record of every block has kit_qty >= 1,
\* kits_purchased >= 1 and unidades = kit_qty * kits_purchased, also when
\* the first integer token of the variation is 0 or the parsed quantity is 0.
C11_ItemRecordInvariant ==
    pc = "block_item_done" =>
        /\ diag.kit_qty >= 1
        /\ diag.kits_purchased >= 1
        /\ diag.unidades = diag.kit_qty * diag.kits_purchased

(***************************************************************************)
(* What the claims say about the extraction and the split                  *)
(***************************************************************************)
VarLabel == LblVar \o <<" ", ":", " ">>

LabelPositions(t) ==
    {p \in 1..Len(t) : /\ p + Len(VarLabel) - 1 <= Len(t)
                       /\ SubSeq(t, p, p + Len(VarLabel) - 1) = VarLabel}

\* the trimmed text after the first label, up to a semicolon or line end
VariationAfterLabel(t) ==
    IF LabelPositions(t) = {} THEN <<>>
    ELSE LET s == MinOf(LabelPositions(t)) + Len(VarLabel)
             e == CHOOSE q \in s..(Len(t) + 1) :
                      /\ q = Len(t) + 1 \/ t[q] \in {";", "\n"}
                      /\ \A k \in s..(q - 1) : t[k] \notin {";", "\n"}
         IN  Strip(SubSeq(t, s, e - 1))

\* C8: the variation of a block is the trimmed text after the first
\* "Variation Name : " label up to the first semicolon or end of line, and
\* the empty string when the block has no such label.
C8_VariationUpToLineEnd ==
    pc = "block_done" => variation = VariationAfterLabel(blk)

IsMarkerAt(t, p) ==
    /\ t[p] = "["
    /\ LET d == RunEnd(t, p + 1, "digit")
       IN  d > p + 1 /\ d <= Len(t) /\ t[d] = "]"

MarkerPositions(t) == {p \in 1..Len(t) : IsMarkerAt(t, p)}

\* the runs of text from each marker up to the next marker or the end
RunsFromMarkers(t) ==
    LET M == MarkerPositions(t)
        nth(i) == CHOOSE m \in M : Cardinality({x \in M : x < m}) = i - 1
    IN  [i \in 1..Cardinality(M) |->
            SubSeq(t, nth(i),
                   IF i = Cardinality(M) THEN Len(t) ELSE nth(i + 1) - 1)]

\* C9: a product_info with a marker splits into the runs of text from each
\* marker up to the next marker or the end; one without a marker is a
\* single block; a non-string has no block.
C9_BlocksAreRunsFromMarkers ==
    pc = "cell_done" =>
        IF product_info.t # "str" THEN blocks = <<>>
        ELSE IF MarkerPositions(product_info.s) = {}
             THEN blocks = <<product_info.s>>
             ELSE blocks = RunsFromMarkers(product_info.s)

(***************************************************************************)
(* App.run_process: detail rows, diagnostic rows and the summary           *)
(***************************************************************************)
MaxRows == 2

None == "<None>"

\* row.get(col, default)
Get(row, col, default) == IF col \in DOMAIN row THEN row[col] ELSE default

RECURSIVE SumSeq(_)
SumSeq(ns) == IF ns = <<>> THEN 0 ELSE Head(ns) + SumSeq(Tail(ns))

NonEmpty(s) == s # <<>>

\* "; ".join(parts)
RECURSIVE JoinSemi(_)
JoinSemi(parts) ==
    IF parts = <<>> THEN <<>>
    ELSE IF Len(parts) = 1 THEN parts[1]
    ELSE parts[1] \o <<";", " ">> \o JoinSemi(Tail(parts))

\* str(x) of a cell
StrOf(x) ==
    IF x.t = "str" THEN x.s
    ELSE IF x.t = "int" THEN IntToStr(x.n)
    ELSE <<"n", "a", "n">>

\* f"{n} + C"
FormatCounted(n) == IntToStr(n) \o <<" ", "+", " ", "C">>

\* s.split(): does it have a first token, and which
HasToken(s) == Strip(s) # <<>>
FirstToken(s) ==
    LET a == RunEnd(s, 1, "space")
    IN  SubSeq(s, a, RunEnd(s, a, "nonspace") - 1)

AllDigits(s) == s # <<>> /\ \A i \in 1..Len(s) : IsDigit(s[i])

\* sorted(categories, key=str.lower) puts the category names in this order
NamesSorted == <<"BB", "CAPA", "ENC", "ENC_CAPA", "PR", "R70", "RAMPA", "XUXAO">>

CategoryNames(c) == {c.categories[i].name : i \in 1..Len(c.categories)}

InSeq(x, q) == \E i \in 1..Len(q) : q[i] = x

\* prios + remaining
out_cols(c) ==
    LET categories == CategoryNames(c)
        prios == SelectSeq(c.priorities, LAMBDA x : x \in categories)
        remaining == SelectSeq(NamesSorted,
                               LAMBDA x : x \in categories /\ ~InSeq(x, prios))
    IN  prios \o remaining

ColSet(c) == {out_cols(c)[i] : i \in 1..Len(out_cols(c))}

NoAccum ==
    [accum_numeric |-> [c \in {} |-> 0], accum_enc_capa |-> 0,
     per_block_sku |-> <<>>, per_block_variations |-> <<>>, diags |-> <<>>]

\* the loop over outputs.items() for the single output of an item
AddOutput(acc, outs) ==
    IF DOMAIN outs = {} THEN acc
    ELSE LET col == CHOOSE k \in DOMAIN outs : TRUE
             meta == outs[col]
         IN  IF meta.type = "numeric"
             THEN [acc EXCEPT !.accum_numeric =
                      IF col \in DOMAIN @ THEN [@ EXCEPT ![col] = @ + meta.value]
                      ELSE @ @@ (col :> meta.value)]
             ELSE IF meta.type = "enc_capa"
             THEN [acc EXCEPT !.accum_enc_capa = @ + meta.value]
             ELSE acc

\* lines 363-365: the item of one block
item_of_fields(f, q, c) == compute_outputs_single_item(f.sku_raw, f.variation, q, c)

item_of_block(b, c) ==
    item_of_fields(extract_sku_and_var_from_text(b),
                   extract_quantity_from_text(b, 1), c)

\* lines 366-373: the item r added to the accumulators of the row
AddItem(acc, r) ==
    AddOutput([acc EXCEPT
                 !.per_block_variations = Append(@, r.diag.variation_seen),
                 !.per_block_sku = Append(@, r.diag.sku_raw),
                 !.diags = Append(@, r.diag)],
              r.outputs)

\* the loop "for blk in blocks" of one row; the order_sn of the diagnostic
\* rows is the row's and is added by process_row
RECURSIVE FoldBlocks(_, _, _)
FoldBlocks(bs, acc, c) ==
    IF bs = <<>> THEN acc
    ELSE FoldBlocks(Tail(bs), AddItem(acc, item_of_block(Head(bs), c)), c)

FoldCell(info, c) == FoldBlocks(split_blocks(info), NoAccum, c)

\* the product_info cells of the order sheets
BlkR70 == FMarker1 \o LblSku \o <<" ", ":", " ", "R", "-", "7", "0", ";", " ">>
            \o LblVar \o <<" ", ":", " ", "2", " ", "u", ";", " ">>
            \o <<"Q", "u", "a", "n", "t", "i", "t", "y", ":", " ", "4">>
BlkExtra == FMarker1 \o LblSku \o <<" ", ":", " ", "E", "1", ";", " ">>
            \o LblVar \o <<" ", ":", " ", "E", "ñ", "c", "o", "s", "t", "o">>
            \o WPlusCapa \o WExtra \o <<";", " ">>
            \o <<"Q", "u", "a", "n", "t", "i", "t", "y", ":", " ", "2">>
BlkCapaSku == LblSku \o <<" ", ":", " ", "E", "C", ";", " ">>
            \o <<"Q", "u", "a", "n", "t", "i", "t", "y", ":", " ", "3">>
BlkUnmapped == LblSku \o <<" ", ":", " ", "Z", "Z", ";", " ">>
            \o <<"q", "t", "y", "=", "5">>

InfoCells ==
    { PyStr(BlkR70), PyStr(BlkExtra),
      PyStr(BlkExtra \o <<" ">> \o FMarker2 \o BlkCapaSku),
      PyStr(FMarker1 \o BlkCapaSku), PyStr(BlkUnmapped), PyNaN }

\* the accumulators of a cell once its blocks are folded; a cell of the
\* sheets above is folded once per configuration and looked up afterwards
FoldedCells == [c \in Configs |-> [p \in InfoCells |-> FoldCell(p, c)]]

FoldedCell(info, c) ==
    IF c \in Configs /\ info \in InfoCells THEN FoldedCells[c][info]
    ELSE FoldCell(info, c)

\* the category cells of a detail row: "" for every column, then the numeric
\* sums, then "ENC_CAPA"; the DataFrame keeps the keys that are columns
detail_cells(acc, c) ==
    LET keys == ColSet(c) \cup DOMAIN acc.accum_numeric
                  \cup (IF acc.accum_enc_capa > 0 THEN {"ENC_CAPA"} ELSE {})
        base == [k \in keys |->
                    IF k = "ENC_CAPA" /\ acc.accum_enc_capa > 0
                    THEN PyStr(FormatCounted(acc.accum_enc_capa))
                    ELSE IF k \in DOMAIN acc.accum_numeric
                    THEN PyInt(acc.accum_numeric[k])
                    ELSE PyStr(<<>>)]
    IN  [k \in ColSet(c) |-> base[k]]

\* lines 375-382 and 368: the detail row and the diagnostic rows of a row
row_record(order_sn, info, acc, c) ==
    [detail |-> [order_sn |-> order_sn,
                 sku_reference_no |->
                     JoinSemi(SelectSeq(acc.per_block_sku, NonEmpty)),
                 variation_name |->
                     JoinSemi(SelectSeq(acc.per_block_variations, NonEmpty)),
                 product_info |-> StrOf(info),
                 cells |-> detail_cells(acc, c)],
     diags |-> [i \in 1..Len(acc.diags) |->
                   [order_sn |-> order_sn, diag |-> acc.diags[i]]]]

row_of_cells(order_sn, info, c) ==
    row_record(order_sn, info, FoldedCell(info, c), c)

\* one iteration of "for _, row in df.iterrows()"
process_row(row, order_col, c) ==
    row_of_cells(Get(row, order_col, PyStr(<<>>)),
                 Get(row, "product_info", PyStr(<<>>)), c)

\* pd.to_numeric(series, errors='coerce').sum(min_count=1), "" when nan
sum_or_blank(series) ==
    LET numeric == SelectSeq(series, LAMBDA x : x.t = "int")
    IN  IF numeric = <<>> THEN PyStr(<<>>)
        ELSE PyInt(SumSeq([i \in 1..Len(numeric) |-> numeric[i].n]))

\* the lambda of agg_map["ENC_CAPA"]
enc_capa_agg(series) ==
    LET filled == SelectSeq(series, LAMBDA x : Strip(StrOf(x)) # <<>>)
    IN  PyInt(SumSeq([i \in 1..Len(filled) |->
                         ParseInt(FirstToken(StrOf(filled[i])))]))

\* total_row[c] of the column "ENC_CAPA"
enc_capa_total(series) ==
    LET ok == SelectSeq(series,
                  LAMBDA x : HasToken(StrOf(x)) /\ AllDigits(FirstToken(StrOf(x))))
        nums == [i \in 1..Len(ok) |-> ParseInt(FirstToken(StrOf(ok[i])))]
    IN  IF nums # <<>> THEN PyStr(FormatCounted(SumSeq(nums))) ELSE PyStr(<<>>)

agg_map(col, series) ==
    IF col = "ENC_CAPA" THEN enc_capa_agg(series) ELSE sum_or_blank(series)

\* the order identifiers in the order groupby sorts them
OrderIdsSorted == << <<>>, <<"A">>, <<"B">> >>

Column(det, col) == [i \in 1..Len(det) |-> det[i].cells[col]]

\* df_det.groupby('order_sn'): the keys, sorted; a nan identifier keys no group
group_keys(det) ==
    SelectSeq(OrderIdsSorted,
              LAMBDA k : \E i \in 1..Len(det) : det[i].order_sn = PyStr(k))

\* df_det.groupby('order_sn', as_index=False).agg(agg_map)
groupby_agg(det, c) ==
    LET keys == group_keys(det)
    IN  [g \in 1..Len(keys) |->
            LET rows == SelectSeq(det, LAMBDA r : r.order_sn = PyStr(keys[g]))
            IN  [order_sn |-> PyStr(keys[g]),
                 cells |-> [col \in ColSet(c) |-> agg_map(col, Column(rows, col))]]]

total_row(det, c) ==
    [order_sn |-> PyStr(<<"T", "O", "T", "A", "L">>),
     cells |-> [col \in ColSet(c) |->
                   IF col = "ENC_CAPA" THEN enc_capa_total(Column(det, col))
                   ELSE sum_or_blank(Column(det, col))]]

\* lines 384-413: the three sheets
sheets(det, diags, c) ==
    [df_det |-> det,
     diag_rows |-> diags,
     resumo |-> Append(groupby_agg(det, c), total_row(det, c))]

sheets_of_rows(done, c) ==
    sheets([i \in 1..Len(done) |-> done[i].detail],
           Flatten([i \in 1..Len(done) |-> done[i].diags]), c)

process_rows(d, order_col, c) ==
    [i \in 1..Len(d.rows) |-> process_row(d.rows[i], order_col, c)]

run_process(d, c) ==
    sheets_of_rows(
        process_rows(d, IF "order_sn" \in d.columns THEN "order_sn" ELSE None, c),
        c)

(***************************************************************************)
(* Spec: run_process on an order sheet                                     *)
(***************************************************************************)
OrderCells == {PyStr(<<"A">>), PyStr(<<"B">>), PyNaN}

RowsWith(cols) ==
    IF cols = {"order_sn", "product_info"}
    THEN {[order_sn |-> o, product_info |-> p] : o \in OrderCells, p \in InfoCells}
    ELSE IF cols = {"product_info"}
    THEN {[product_info |-> p] : p \in InfoCells}
    ELSE {[order_sn |-> o] : o \in OrderCells}

ColumnSets == {{"order_sn", "product_info"}, {"product_info"}, {"order_sn"}}

DataFrames ==
    UNION { {[columns |-> cols, rows |-> r] :
                r \in UNION {[1..n -> RowsWith(cols)] : n \in 1..MaxRows}} :
            cols \in ColumnSets }

Init ==
    /\ cfg \in Configs
    /\ pc = "ready"
    /\ df \in DataFrames
    /\ df_det = <<>> /\ diag_rows = <<>> /\ resumo = <<>>
    /\ product_info = NoCell /\ blocks = <<>>
    /\ blk = <<>> /\ sku_raw = <<>> /\ variation = <<>> /\ qty_blk = 0
    /\ outputs = NoOutputs /\ diag = NoDiag

RunProcess ==
    /\ pc = "ready"
    /\ IF "product_info" \notin df.columns
       THEN /\ pc' = "error"
            /\ UNCHANGED <<df_det, diag_rows, resumo>>
       ELSE \E r \in {run_process(df, cfg)} :
                /\ df_det' = r.df_det
                /\ diag_rows' = r.diag_rows
                /\ resumo' = r.resumo
                /\ pc' = "done"
    /\ UNCHANGED <<cfg, df, product_info, blocks, blk, sku_raw, variation,
                   qty_blk, outputs, diag>>

Next == RunProcess

Spec == Init /\ [][Next]_vars

(***************************************************************************)
(* What the claims say about the tables                                    *)
(***************************************************************************)
SummaryRows == SubSeq(resumo, 1, Len(resumo) - 1)
TotalRow == resumo[Len(resumo)]

\* what a cell counts for: its leading integer, nothing when it is empty
CellValue(x) ==
    IF x.t = "int" THEN x.n
    ELSE IF x.t = "str" /\ HasToken(x.s) /\ AllDigits(FirstToken(x.s))
    THEN ParseInt(FirstToken(x.s))
    ELSE 0

IsFilled(x) == Strip(StrOf(x)) # <<>>

\* C5: in every category column the TOTAL row equals the sum of the column
\* over the per-order summary rows.
C5_TotalIsSumOfOrders ==
    pc = "done" =>
        \A col \in ColSet(cfg) :
            CellValue(TotalRow.cells[col])
              = SumSeq([g \in 1..Len(SummaryRows) |->
                           CellValue(SummaryRows[g].cells[col])])

\* C6: the counted-marker cell of an order's summary row is "<sum> + C",
\* sum being the total of the leading integers of the order's non-empty
\* detail cells of that column, and is empty when the order has none.
C6_OrderCountedCell ==
    pc = "done" =>
        \A g \in 1..Len(SummaryRows) :
            LET col == enc_capa_category(cfg)
                rows == SelectSeq(df_det,
                            LAMBDA r : r.order_sn = SummaryRows[g].order_sn)
                filled == SelectSeq(Column(rows, col), IsFilled)
                sum == SumSeq([i \in 1..Len(filled) |-> CellValue(filled[i])])
            IN  SummaryRows[g].cells[col]
                  = IF filled = <<>> THEN PyStr(<<>>)
                    ELSE PyStr(FormatCounted(sum))

\* the items of one product_info cell, in block order
ItemsOf(info, c) ==
    LET bs == split_blocks(info)
    IN  [k \in 1..Len(bs) |->
            item_of_block(bs[k], c)]

IsCounted(item) == \E k \in DOMAIN item.outputs : item.outputs[k].type = "enc_capa"
IsNumericFor(item, col) ==
    col \in DOMAIN item.outputs /\ item.outputs[col].type = "numeric"

\* C7: in a detail row the column named by enc_capa_category holds
\* "<count> + C", count being the kits of the row's counted-marker items,
\* when count > 0; every other column holds the sum of the units of the
\* row's numeric outputs for it, or is empty when there is none.
C7_DetailCells ==
    pc = "done" =>
        \A i \in 1..Len(df_det) :
            LET items == ItemsOf(df.rows[i].product_info, cfg)
                counted == SelectSeq(items, IsCounted)
                count == SumSeq([k \in 1..Len(counted) |->
                                    counted[k].diag.kits_purchased])
            IN  /\ count > 0 =>
                      df_det[i].cells[enc_capa_category(cfg)]
                        = PyStr(FormatCounted(count))
                /\ \A col \in ColSet(cfg) \ {enc_capa_category(cfg)} :
                      LET num == SelectSeq(items, LAMBDA it : IsNumericFor(it, col))
                      IN  df_det[i].cells[col]
                            = IF num = <<>> THEN PyStr(<<>>)
                              ELSE PyInt(SumSeq([k \in 1..Len(num) |->
                                                    num[k].diag.unidades]))

\* C10: with an order_sn column the summary has one row per distinct
\* order_sn value of the sheet and then the TOTAL row; without the column
\* every row of the sheet has its own summary row.
C10_SummaryGrouping ==
    pc = "done" =>
        /\ TotalRow.order_sn = PyStr(<<"T", "O", "T", "A", "L">>)
        /\ IF "order_sn" \in df.columns
           THEN /\ {SummaryRows[g].order_sn : g \in 1..Len(SummaryRows)}
                     = {df.rows[i].order_sn : i \in 1..Len(df.rows)} \ {PyNaN}
                /\ \A g, h \in 1..Len(SummaryRows) :
                      SummaryRows[g].order_sn = SummaryRows[h].order_sn => g = h
           ELSE Len(SummaryRows) = Len(df.rows)

====
